---- MODULE Spec2Model ----
(***************************************************************************)
(* A model of the wallet ledger of src/wallet.py: the Record value class,  *)
(* the file-backed Wallet and the date validator.                          *)
(*                                                                         *)
(* Python strings are sequences of characters; a character is a one-letter *)
(* TLA+ string, a Cyrillic letter being written by its code point          *)
(* ("U+0434").  A Python value is a record [t, s, n, items]: its type, its *)
(* characters (str), its number (int, bool, and float with an integral     *)
(* value) and its items (list: the elements; dict: <<key, value>> pairs in *)
(* insertion order).                                                       *)
(***************************************************************************)
EXTENDS Integers, Sequences, FiniteSets, TLC

VARIABLES
    file,       \* the store file: missing, or its text
    records,    \* records[w]: the list self.records of Wallet instance w
    alive,      \* alive[w]: Wallet(filename) has returned instance w
    last,       \* the last call on a Wallet: arguments, state before, outcome
    rcall,      \* the Record under construction and conversion (Record class)
    dcall       \* the text given to validate_date and its answer

vars == <<file, records, alive, last, rcall, dcall>>

\* ------------------------------------------------------------ bounds

\* The longest list a Wallet is grown to.
MaxRecords == 3

\* ----------------------------------------------------- Python values

PyStr(chars) == [t |-> "str", s |-> chars, n |-> 0, items |-> <<>>]
PyInt(k) == [t |-> "int", s |-> <<>>, n |-> k, items |-> <<>>]
PyFloat(k) == [t |-> "float", s |-> <<>>, n |-> k, items |-> <<>>]
PyBool(b) == [t |-> "bool", s |-> <<>>, n |-> IF b THEN 1 ELSE 0, items |-> <<>>]
PyNone == [t |-> "NoneType", s |-> <<>>, n |-> 0, items |-> <<>>]
PyList(elems) == [t |-> "list", s |-> <<>>, n |-> 0, items |-> elems]
PyDict(pairs) == [t |-> "dict", s |-> <<>>, n |-> 0, items |-> pairs]

\* The classes a value's class derives from, itself included: bool is a
\* subclass of int.
Bases(t) == IF t = "bool" THEN {"bool", "int"} ELSE {t}

isinstance(v, classes) == Bases(v.t) \cap classes # {}

\* ---------------------------------------------------------- strings

UpperChars ==
    << "A", "B", "C", "D", "E", "F", "G", "H", "I", "J", "K", "L", "M",
       "N", "O", "P", "Q", "R", "S", "T", "U", "V", "W", "X", "Y", "Z",
       "U+0414", "U+0420", "U+041E", "U+0425", "U+0410", "U+0421" >>

LowerChars ==
    << "a", "b", "c", "d", "e", "f", "g", "h", "i", "j", "k", "l", "m",
       "n", "o", "p", "q", "r", "s", "t", "u", "v", "w", "x", "y", "z",
       "U+0434", "U+0440", "U+043E", "U+0445", "U+0430", "U+0441" >>

\* The lower-case letter of each upper-case one.
LowerOf ==
    [c \in {UpperChars[i] : i \in 1..Len(UpperChars)} |->
        LowerChars[CHOOSE i \in 1..Len(UpperChars) : UpperChars[i] = c]]

\* str.lower() on one character.
LowerChar(c) == IF c \in DOMAIN LowerOf THEN LowerOf[c] ELSE c

\* str.lower()
lower(chars) == [i \in 1..Len(chars) |-> LowerChar(chars[i])]

\* str.find(): the least offset at which needle occurs in hay from offset
\* start on, -1 when there is none.
RECURSIVE find(_, _, _)
find(hay, needle, start) ==
    IF start + Len(needle) > Len(hay) THEN -1
    ELSE IF SubSeq(hay, start + 1, start + Len(needle)) = needle THEN start
    ELSE find(hay, needle, start + 1)

\* needle in hay
str_in(needle, hay) == find(hay, needle, 0) # -1

\* The decimal digits of a natural number.
RECURSIVE Digits(_)
Digits(k) ==
    LET d == <<"0", "1", "2", "3", "4", "5", "6", "7", "8", "9">>[(k % 10) + 1]
    IN  IF k < 10 THEN <<d>> ELSE Digits(k \div 10) \o <<d>>

\* int.__repr__
IntText(k) == IF k < 0 THEN <<"-">> \o Digits(-k) ELSE Digits(k)

\* str(value) of a number or a string: a float of integral value is written
\* with ".0", a bool by its name.
str(v) ==
    IF v.t = "str" THEN v.s
    ELSE IF v.t = "bool" THEN (IF v.n = 1 THEN <<"T", "r", "u", "e">>
                                          ELSE <<"F", "a", "l", "s", "e">>)
    ELSE IF v.t = "float" THEN IntText(v.n) \o <<".", "0">>
    ELSE IntText(v.n)

\* ------------------------------------------------------ class Record

NoRecord == [date |-> PyNone, category |-> PyNone, amount |-> PyNone,
             description |-> PyNone]

\* Record.__init__ without the test of description.
Record_init_unchecked(date, category, amount, description) ==
    IF \/ ~isinstance(date, {"str"})
       \/ ~isinstance(category, {"str"})
       \/ ~isinstance(amount, {"int", "float"})
    THEN [exc |-> "TypeError", obj |-> NoRecord]
    ELSE [exc |-> "none",
          obj |-> [date |-> date, category |-> category, amount |-> amount,
                   description |-> description]]

\* Record.__init__: the object, or the TypeError raised.
Record_init(date, category, amount, description) ==
    IF \/ ~isinstance(date, {"str"})
       \/ ~isinstance(category, {"str"})
       \/ ~isinstance(amount, {"int", "float"})
       \/ ~isinstance(description, {"str"})
    THEN [exc |-> "TypeError", obj |-> NoRecord]
    ELSE [exc |-> "none",
          obj |-> [date |-> date, category |-> category, amount |-> amount,
                   description |-> description]]

\* to_dict writing float(self.amount).
to_dict_float(self) ==
    PyDict(<< <<"date", self.date>>, <<"category", self.category>>,
              <<"amount", PyFloat(self.amount.n)>>,
              <<"description", self.description>> >>)

\* Record.to_dict
to_dict(self) ==
    PyDict(<< <<"date", self.date>>, <<"category", self.category>>,
              <<"amount", self.amount>>, <<"description", self.description>> >>)

\* data[key] on a Python value: the value under the key of a dict (its last
\* pair of that key), KeyError when the dict has no such key, TypeError when
\* the value is no dict (an int is not subscriptable; a str or a list takes
\* no str index).
getitem(data, key) ==
    IF data.t # "dict" THEN [exc |-> "TypeError", val |-> PyNone]
    ELSE LET hits == {i \in 1..Len(data.items) : data.items[i][1] = key}
         IN  IF hits = {} THEN [exc |-> "KeyError", val |-> PyNone]
             ELSE [exc |-> "none",
                   val |-> data.items[CHOOSE i \in hits :
                                          \A j \in hits : j <= i][2]]

\* from_dict building the Record without the constructor's type test.
from_dict_unvalidated(data) ==
    LET d == getitem(data, "date")
        c == getitem(data, "category")
        a == getitem(data, "amount")
        x == getitem(data, "description")
    IN  IF d.exc # "none" THEN [exc |-> d.exc, obj |-> NoRecord]
        ELSE IF c.exc # "none" THEN [exc |-> c.exc, obj |-> NoRecord]
        ELSE IF a.exc # "none" THEN [exc |-> a.exc, obj |-> NoRecord]
        ELSE IF x.exc # "none" THEN [exc |-> x.exc, obj |-> NoRecord]
        ELSE [exc |-> "none",
              obj |-> [date |-> d.val, category |-> c.val, amount |-> a.val,
                       description |-> x.val]]

\* Record.from_dict: the four lookups in argument order, then the constructor.
from_dict(data) ==
    LET d == getitem(data, "date")
        c == getitem(data, "category")
        a == getitem(data, "amount")
        x == getitem(data, "description")
    IN  IF d.exc # "none" THEN [exc |-> d.exc, obj |-> NoRecord]
        ELSE IF c.exc # "none" THEN [exc |-> c.exc, obj |-> NoRecord]
        ELSE IF a.exc # "none" THEN [exc |-> a.exc, obj |-> NoRecord]
        ELSE IF x.exc # "none" THEN [exc |-> x.exc, obj |-> NoRecord]
        ELSE Record_init(d.val, c.val, a.val, x.val)

\* ------------------------------------------------- the json module

\* The content of a file is zero-length ("empty"), bytes that are no UTF-8
\* text ("binary"), text that is no JSON document ("garbage") or a JSON
\* document ("json") with its value: a node
\* [j, s, n, kids], j one of string, int (a number without fraction or
\* exponent), real (a number with one), true, false, null, array (kids: the
\* elements) and object (kids: the <<key, node>> members in order).
JString(chars) == [j |-> "string", s |-> chars, n |-> 0, kids |-> <<>>]
JInt(k) == [j |-> "int", s |-> <<>>, n |-> k, kids |-> <<>>]
JReal(k) == [j |-> "real", s |-> <<>>, n |-> k, kids |-> <<>>]
JAtom(name) == [j |-> name, s |-> <<>>, n |-> 0, kids |-> <<>>]
JArray(elems) == [j |-> "array", s |-> <<>>, n |-> 0, kids |-> elems]
JObject(members) == [j |-> "object", s |-> <<>>, n |-> 0, kids |-> members]

EmptyText == [kind |-> "empty", val |-> JAtom("null")]
GarbageText == [kind |-> "garbage", val |-> JAtom("null")]
BinaryText == [kind |-> "binary", val |-> JAtom("null")]
JsonText(node) == [kind |-> "json", val |-> node]

\* json.dump(value): the encoder tries str, None, True, False, int, float,
\* list and dict in this order, so a bool is written as true or false and
\* a float with its fraction.
RECURSIVE encode(_)
encode(v) ==
    IF v.t = "str" THEN JString(v.s)
    ELSE IF v.t = "NoneType" THEN JAtom("null")
    ELSE IF v.t = "bool" THEN JAtom(IF v.n = 1 THEN "true" ELSE "false")
    ELSE IF v.t = "int" THEN JInt(v.n)
    ELSE IF v.t = "float" THEN JReal(v.n)
    ELSE IF v.t = "list"
         THEN JArray([i \in 1..Len(v.items) |-> encode(v.items[i])])
    ELSE JObject([i \in 1..Len(v.items) |->
                     <<v.items[i][1], encode(v.items[i][2])>>])

json_dump(value) == JsonText(encode(value))

\* The decoder: a number without fraction is an int, one with a fraction a
\* float, an object a dict.
RECURSIVE decode(_)
decode(node) ==
    IF node.j = "string" THEN PyStr(node.s)
    ELSE IF node.j = "null" THEN PyNone
    ELSE IF node.j = "true" THEN PyBool(TRUE)
    ELSE IF node.j = "false" THEN PyBool(FALSE)
    ELSE IF node.j = "int" THEN PyInt(node.n)
    ELSE IF node.j = "real" THEN PyFloat(node.n)
    ELSE IF node.j = "array"
         THEN PyList([i \in 1..Len(node.kids) |-> decode(node.kids[i])])
    ELSE PyDict([i \in 1..Len(node.kids) |->
                    <<node.kids[i][1], decode(node.kids[i][2])>>])

\* json.load(f): f.read() decodes the bytes (UnicodeDecodeError), then the
\* value, or JSONDecodeError on a text that is no document.
json_load(text) ==
    IF text.kind = "binary" THEN [exc |-> "UnicodeDecodeError", val |-> PyNone]
    ELSE IF text.kind # "json" THEN [exc |-> "JSONDecodeError", val |-> PyNone]
    ELSE [exc |-> "none", val |-> decode(text.val)]

\* iter(value): the elements of a list, the keys of a dict (a key is an atom
\* here, yielded as a str of that one atom), the characters of a str;
\* TypeError for a value that is not iterable.
iterate(v) ==
    IF v.t = "list" THEN [exc |-> "none", elems |-> v.items]
    ELSE IF v.t = "dict"
         THEN [exc |-> "none",
               elems |-> [i \in 1..Len(v.items) |-> PyStr(<<v.items[i][1]>>)]]
    ELSE IF v.t = "str"
         THEN [exc |-> "none", elems |-> [i \in 1..Len(v.s) |-> PyStr(<<v.s[i]>>)]]
    ELSE [exc |-> "TypeError", elems |-> <<>>]

\* ------------------------------------------------------ class Wallet

Missing == [exists |-> FALSE, text |-> EmptyText]
FileOf(text) == [exists |-> TRUE, text |-> text]

\* The comprehension skipping the elements whose conversion raises.
RECURSIVE from_dicts_skip(_, _)
from_dicts_skip(elems, done) ==
    IF elems = <<>> THEN [exc |-> "none", objs |-> done]
    ELSE LET r == from_dict(Head(elems))
         IN  from_dicts_skip(Tail(elems),
                             IF r.exc # "none" THEN done ELSE Append(done, r.obj))

\* [Record.from_dict(record) for record in elems]: the list, or the first
\* exception a conversion raises.
RECURSIVE from_dicts(_, _)
from_dicts(elems, done) ==
    IF elems = <<>> THEN [exc |-> "none", objs |-> done]
    ELSE LET r == from_dict(Head(elems))
         IN  IF r.exc # "none" THEN [exc |-> r.exc, objs |-> <<>>]
             ELSE from_dicts(Tail(elems), Append(done, r.obj))

\* load_records without its handler of JSONDecodeError.
load_records_uncaught(self_records, f) ==
    IF ~f.exists THEN [exc |-> "none", records |-> <<>>, file |-> f]
    ELSE LET loaded == json_load(f.text)
         IN  IF loaded.exc # "none"
             THEN [exc |-> loaded.exc, records |-> self_records, file |-> f]
             ELSE LET it == iterate(loaded.val)
                  IN  IF it.exc # "none"
                      THEN [exc |-> it.exc, records |-> self_records, file |-> f]
                      ELSE LET objs == from_dicts(it.elems, <<>>)
                           IN  IF objs.exc # "none"
                               THEN [exc |-> objs.exc, records |-> self_records,
                                     file |-> f]
                               ELSE [exc |-> "none", records |-> objs.objs, file |-> f]

\* load_records adding what it reads to the list in place of assigning it:
\* self.records.extend(...).
load_records_extend(self_records, f) ==
    IF ~f.exists THEN [exc |-> "none", records |-> <<>>, file |-> f]
    ELSE LET loaded == json_load(f.text)
         IN  IF loaded.exc = "JSONDecodeError"
             THEN [exc |-> "none", records |-> <<>>, file |-> f]
             ELSE IF loaded.exc # "none"
             THEN [exc |-> loaded.exc, records |-> self_records, file |-> f]
             ELSE LET it == iterate(loaded.val)
                  IN  IF it.exc # "none"
                      THEN [exc |-> it.exc, records |-> self_records, file |-> f]
                      ELSE LET objs == from_dicts(it.elems, <<>>)
                           IN  IF objs.exc # "none"
                               THEN [exc |-> objs.exc, records |-> self_records,
                                     file |-> f]
                               ELSE [exc |-> "none",
                                     records |-> self_records \o objs.objs,
                                     file |-> f]

\* load_records opening the file with 'a+': a missing file is created
\* empty before it is read.
load_records_create(self_records, f) ==
    IF ~f.exists
    THEN [exc |-> "none", records |-> <<>>, file |-> FileOf(EmptyText)]
    ELSE LET loaded == json_load(f.text)
         IN  IF loaded.exc = "JSONDecodeError"
             THEN [exc |-> "none", records |-> <<>>, file |-> f]
             ELSE IF loaded.exc # "none"
             THEN [exc |-> loaded.exc, records |-> self_records, file |-> f]
             ELSE LET it == iterate(loaded.val)
                  IN  IF it.exc # "none"
                      THEN [exc |-> it.exc, records |-> self_records, file |-> f]
                      ELSE LET objs == from_dicts(it.elems, <<>>)
                           IN  IF objs.exc # "none"
                               THEN [exc |-> objs.exc, records |-> self_records,
                                     file |-> f]
                               ELSE [exc |-> "none", records |-> objs.objs, file |-> f]

\* Wallet.load_records on self.records = self_records and store file f: the
\* exception that leaves the method ("none" when it returns), self.records
\* afterwards and the file afterwards (open(filename, 'r') writes nothing).
\* Only FileNotFoundError and JSONDecodeError are caught.
load_records(self_records, f) ==
    IF ~f.exists THEN [exc |-> "none", records |-> <<>>, file |-> f]
    ELSE LET loaded == json_load(f.text)
         IN  IF loaded.exc = "JSONDecodeError"
             THEN [exc |-> "none", records |-> <<>>, file |-> f]
             ELSE IF loaded.exc # "none"
             THEN [exc |-> loaded.exc, records |-> self_records, file |-> f]
             ELSE LET it == iterate(loaded.val)
                  IN  IF it.exc # "none"
                      THEN [exc |-> it.exc, records |-> self_records, file |-> f]
                      ELSE LET objs == from_dicts(it.elems, <<>>)
                           IN  IF objs.exc # "none"
                               THEN [exc |-> objs.exc, records |-> self_records,
                                     file |-> f]
                               ELSE [exc |-> "none", records |-> objs.objs, file |-> f]

\* Wallet.__init__: self.records = [], then load_records().
Wallet_init(f) == load_records(<<>>, f)

\* save_records opening the file with 'a': the document follows what the
\* file held, and two documents are no JSON document.
save_records_append(self_records, f) ==
    IF f.exists /\ f.text.kind # "empty" THEN FileOf(GarbageText)
    ELSE FileOf(json_dump(PyList([i \in 1..Len(self_records) |->
                                     to_dict(self_records[i])])))

\* save_records keeping what the file holds: the records follow the elements
\* of the array already there.
save_records_merge(self_records, f) ==
    LET held == IF f.exists /\ f.text.kind = "json" /\ f.text.val.j = "array"
                THEN f.text.val.kids ELSE <<>>
    IN  FileOf(JsonText(JArray(held \o [i \in 1..Len(self_records) |->
                                           encode(to_dict(self_records[i]))])))

\* Wallet.save_records: the file after open(filename, 'w') and json.dump of
\* the list of the records' dicts.
save_records(self_records, f) ==
    FileOf(json_dump(PyList([i \in 1..Len(self_records) |->
                                to_dict(self_records[i])])))

\* add_record refusing a record the list already holds.
add_record_unique(self_records, f, record) ==
    LET appended == IF \E i \in 1..Len(self_records) : self_records[i] = record
                    THEN self_records ELSE Append(self_records, record)
    IN  [records |-> appended, file |-> save_records(appended, f)]

\* add_record reading the file before it appends: load_records(), then the
\* append and the save.
add_record_reload(self_records, f, record) ==
    LET appended == Append(load_records(self_records, f).records, record)
    IN  [records |-> appended, file |-> save_records(appended, f)]

\* Wallet.add_record
add_record(self_records, f, record) ==
    LET appended == Append(self_records, record)
    IN  [records |-> appended, file |-> save_records(appended, f)]

\* edit_record testing index < len(self.records) alone: a negative index
\* counts from the end of the list.
edit_record_from_end(self_records, f, index, new_record) ==
    LET at == IF index < 0 THEN Len(self_records) + index + 1 ELSE index + 1
    IN  IF index < Len(self_records) /\ at >= 1
        THEN LET edited == [self_records EXCEPT ![at] = new_record]
             IN  [records |-> edited, file |-> save_records(edited, f),
                  ret |-> TRUE]
        ELSE [records |-> self_records, file |-> f, ret |-> FALSE]

\* Wallet.edit_record; index is Python's, from 0.
edit_record(self_records, f, index, new_record) ==
    IF 0 <= index /\ index < Len(self_records)
    THEN LET edited == [self_records EXCEPT ![index + 1] = new_record]
         IN  [records |-> edited, file |-> save_records(edited, f), ret |-> TRUE]
    ELSE [records |-> self_records, file |-> f, ret |-> FALSE]

\* remove_record deleting the last record (self.records.pop()) whatever the
\* index.
remove_record_pop(self_records, f, index) ==
    IF 0 <= index /\ index < Len(self_records)
    THEN LET kept == SubSeq(self_records, 1, Len(self_records) - 1)
         IN  [records |-> kept, file |-> save_records(kept, f), ret |-> TRUE]
    ELSE [records |-> self_records, file |-> f, ret |-> FALSE]

\* Wallet.remove_record; index is Python's, from 0.
remove_record(self_records, f, index) ==
    IF 0 <= index /\ index < Len(self_records)
    THEN LET kept == SubSeq(self_records, 1, index)
                         \o SubSeq(self_records, index + 2, Len(self_records))
         IN  [records |-> kept, file |-> save_records(kept, f), ret |-> TRUE]
    ELSE [records |-> self_records, file |-> f, ret |-> FALSE]

\* find_matches with the date searched like the other fields.
find_matches_date_in(record, search_term) ==
    \/ str_in(lower(search_term), lower(record.description.s))
    \/ str_in(lower(search_term), lower(record.category.s))
    \/ str_in(lower(search_term), lower(str(record.amount)))
    \/ str_in(lower(search_term), lower(record.date.s))

\* The test of the comprehension of find_records on one record.
find_matches(record, search_term) ==
    \/ str_in(lower(search_term), lower(record.description.s))
    \/ str_in(lower(search_term), lower(record.category.s))
    \/ str_in(lower(search_term), lower(str(record.amount)))
    \/ lower(search_term) = lower(record.date.s)

\* Wallet.find_records: the comprehension, record by record.
RECURSIVE find_records(_, _)
find_records(self_records, search_term) ==
    IF self_records = <<>> THEN <<>>
    ELSE (IF find_matches(Head(self_records), search_term)
          THEN <<Head(self_records)>> ELSE <<>>)
         \o find_records(Tail(self_records), search_term)

\* a + b and a - b on numbers: a float when either is a float, else an int.
py_add(a, b) ==
    IF a.t = "float" \/ b.t = "float" THEN PyFloat(a.n + b.n) ELSE PyInt(a.n + b.n)

py_sub(a, b) ==
    IF a.t = "float" \/ b.t = "float" THEN PyFloat(a.n - b.n) ELSE PyInt(a.n - b.n)

\* 'доход' and 'расход'
IncomeLabel == <<"U+0434", "U+043E", "U+0445", "U+043E", "U+0434">>
ExpenseLabel == <<"U+0440", "U+0430", "U+0441", "U+0445", "U+043E", "U+0434">>

\* sum_category with the label searched in the category.
RECURSIVE sum_category_in(_, _, _)
sum_category_in(self_records, label, acc) ==
    IF self_records = <<>> THEN acc
    ELSE sum_category_in(Tail(self_records), label,
                         IF str_in(label, lower(Head(self_records).category.s))
                         THEN py_add(acc, Head(self_records).amount) ELSE acc)

\* sum(record.amount for record in self.records if
\*     record.category.lower() == label), from the int 0.
RECURSIVE sum_category(_, _, _)
sum_category(self_records, label, acc) ==
    IF self_records = <<>> THEN acc
    ELSE sum_category(Tail(self_records), label,
                      IF lower(Head(self_records).category.s) = label
                      THEN py_add(acc, Head(self_records).amount) ELSE acc)

\* Wallet.display_balance: the three numbers it prints.
display_balance(self_records) ==
    LET income == sum_category(self_records, IncomeLabel, PyInt(0))
        expense == sum_category(self_records, ExpenseLabel, PyInt(0))
    IN  [income |-> income, expense |-> expense,
         balance |-> py_sub(income, expense)]

\* ---------------------------------------------------- validate_date

DigitChars == <<"0", "1", "2", "3", "4", "5", "6", "7", "8", "9">>

IsDigit(c) == \E i \in 1..10 : DigitChars[i] = c

DigitValue(c) == (CHOOSE i \in 1..10 : DigitChars[i] = c) - 1

\* The character of text at offset p (from 0), "" past its end.
CharAt(text, p) == IF p < Len(text) THEN text[p + 1] ELSE ""

\* The ends of the matches of one directive of the format at offset p, in
\* the order the alternatives of its pattern are tried:
\*   %Y  \d\d\d\d
\*   %m  1[0-2] | 0[1-9] | [1-9]
\*   %d  3[0-1] | [1-2]\d | 0[1-9] | [1-9] | " "[1-9]
YearEnds(text, p) ==
    IF \A k \in 0..3 : IsDigit(CharAt(text, p + k)) THEN <<p + 4>> ELSE <<>>

MonthEnds(text, p) ==
    LET a == CharAt(text, p)
        b == CharAt(text, p + 1)
    IN  (IF a = "1" /\ b \in {"0", "1", "2"} THEN <<p + 2>> ELSE <<>>)
        \o (IF a = "0" /\ IsDigit(b) /\ b # "0" THEN <<p + 2>> ELSE <<>>)
        \o (IF IsDigit(a) /\ a # "0" THEN <<p + 1>> ELSE <<>>)

DayEnds(text, p) ==
    LET a == CharAt(text, p)
        b == CharAt(text, p + 1)
    IN  (IF a = "3" /\ b \in {"0", "1"} THEN <<p + 2>> ELSE <<>>)
        \o (IF a \in {"1", "2"} /\ IsDigit(b) THEN <<p + 2>> ELSE <<>>)
        \o (IF a = "0" /\ IsDigit(b) /\ b # "0" THEN <<p + 2>> ELSE <<>>)
        \o (IF IsDigit(a) /\ a # "0" THEN <<p + 1>> ELSE <<>>)
        \o (IF a = " " /\ IsDigit(b) /\ b # "0" THEN <<p + 2>> ELSE <<>>)

\* int(text[from:to]), blanks skipped.
RECURSIVE FieldValue(_, _, _)
FieldValue(text, from, to) ==
    IF from >= to THEN 0
    ELSE IF text[to] = " " THEN FieldValue(text, from, to - 1)
    ELSE FieldValue(text, from, to - 1) * 10 + DigitValue(text[to])

\* The match of the pattern of '%Y-%m-%d' at the start of text: the first
\* one the alternatives give, trying a later alternative when the rest of
\* the pattern fails after an earlier one. ok is FALSE when there is none.
format_match(text) ==
    LET ys == YearEnds(text, 0)
        y == IF ys = <<>> THEN 0 ELSE ys[1]
        ms == IF ys # <<>> /\ CharAt(text, y) = "-"
              THEN MonthEnds(text, y + 1) ELSE <<>>
        full == {i \in 1..Len(ms) :
                    CharAt(text, ms[i]) = "-" /\ DayEnds(text, ms[i] + 1) # <<>>}
    IN  IF full = {} THEN [ok |-> FALSE, year |-> 0, month |-> 0, day |-> 0,
                           end |-> 0]
        ELSE LET m == ms[CHOOSE i \in full : \A j \in full : i <= j]
                 d == DayEnds(text, m + 1)[1]
             IN  [ok |-> TRUE,
                  year |-> FieldValue(text, 0, y),
                  month |-> FieldValue(text, y + 1, m),
                  day |-> FieldValue(text, m + 1, d),
                  end |-> d]

\* The calendar of datetime: years 1 to 9999, the days of each month.
is_leap(year) == year % 4 = 0 /\ (year % 100 # 0 \/ year % 400 = 0)

days_in_month(year, month) ==
    IF month = 2 THEN (IF is_leap(year) THEN 29 ELSE 28)
    ELSE IF month \in {4, 6, 9, 11} THEN 30 ELSE 31

\* datetime.datetime.strptime(date_text, '%Y-%m-%d'): ValueError when the
\* text does not match the format, when text remains after the match, or
\* when the fields are no date of the calendar.
strptime(date_text) ==
    LET found == format_match(date_text)
    IN  IF ~found.ok THEN "ValueError"
        ELSE IF found.end # Len(date_text) THEN "ValueError"
        ELSE IF found.year < 1 \/ found.day > days_in_month(found.year, found.month)
             THEN "ValueError"
        ELSE "none"

\* validate_date
validate_date(date_text) == strptime(date_text) = "none"

\* ------------------------------------------------- the values drawn

\* "2023-01-01", "2023-02-01"
Date1 == <<"2", "0", "2", "3", "-", "0", "1", "-", "0", "1">>
Date2 == <<"2", "0", "2", "3", "-", "0", "2", "-", "0", "1">>

\* The records handed to a Wallet, each built by the constructor:
\*   ("2023-01-01", "Доход",  1000.0, "Salary")
\*   ("2023-02-01", "РАСХОД", -50,    "Coffee")
\*   ("2023-01-01", "доходы", 7.0,    "2023-02")
RecordPool ==
    { Record_init(PyStr(Date1), PyStr(<<"U+0414", "U+043E", "U+0445", "U+043E", "U+0434">>),
                  PyFloat(1000), PyStr(<<"S", "a", "l", "a", "r", "y">>)).obj,
      Record_init(PyStr(Date2), PyStr(<<"U+0420", "U+0410", "U+0421", "U+0425", "U+041E", "U+0414">>),
                  PyInt(-50), PyStr(<<"C", "o", "f", "f", "e", "e">>)).obj,
      Record_init(PyStr(Date1), PyStr(<<"U+0434", "U+043E", "U+0445", "U+043E", "U+0434", "U+044B">>),
                  PyFloat(7), PyStr(<<"2", "0", "2", "3", "-", "0", "2">>)).obj }

\* The search terms: "salary", "2023-01-01", "2023-02", "ДОХОД", "0.0", "-5",
\* "" and "zzz".
Terms ==
    { <<"s", "a", "l", "a", "r", "y">>,
      Date1,
      <<"2", "0", "2", "3", "-", "0", "2">>,
      <<"U+0414", "U+041E", "U+0425", "U+041E", "U+0414">>,
      <<"0", ".", "0">>,
      <<"-", "5">>,
      <<>>,
      <<"z", "z", "z">> }

\* The indexes given to edit_record and remove_record (Python's, from 0): a
\* negative one, every position of the longest list, and one past its end.
Indexes == (-1)..MaxRecords

\* The Wallet instances; the first alone acts in Spec.
Instances == {1, 2}

\* A record-shaped JSON object of the pool's first record, and one without
\* its description.
GoodObject ==
    encode(to_dict(CHOOSE r \in RecordPool : r.amount = PyFloat(1000)))

ShortObject == JObject(SubSeq(GoodObject.kids, 1, 3))

\* The same object with a string, "abc", as its amount.
MistypedObject ==
    JObject([GoodObject.kids EXCEPT ![3] = <<"amount", JString(<<"a", "b", "c">>)>>])

\* The store file when the program starts: missing, zero-length, no JSON, no
\* text, or the JSON documents [], [good], 5, [5], {}, [short], [good, short],
\* [mistyped] and [mistyped, short].
InitFiles ==
    { Missing, FileOf(EmptyText), FileOf(GarbageText), FileOf(BinaryText),
      FileOf(JsonText(JArray(<<>>))),
      FileOf(JsonText(JArray(<<GoodObject>>))),
      FileOf(JsonText(JInt(5))),
      FileOf(JsonText(JArray(<<JInt(5)>>))),
      FileOf(JsonText(JObject(<<>>))),
      FileOf(JsonText(JArray(<<ShortObject>>))),
      FileOf(JsonText(JArray(<<GoodObject, ShortObject>>))),
      FileOf(JsonText(JArray(<<MistypedObject>>))),
      FileOf(JsonText(JArray(<<MistypedObject, ShortObject>>))) }

\* --------------------------------------------------- the Wallet calls

NoCall ==
    [op |-> "none", w |-> 0, index |-> 0, rec |-> NoRecord, term |-> <<>>,
     ret |-> FALSE, exc |-> "none", found |-> <<>>,
     income |-> PyInt(0), expense |-> PyInt(0), balance |-> PyInt(0),
     pre |-> <<>>, prefile |-> Missing]

\* The call op on instance w, in the state it is made in.
Call(op, w) == [NoCall EXCEPT !.op = op, !.w = w, !.pre = records[w],
                              !.prefile = file]

NoRecordCall == [stage |-> "idle", args |-> <<>>, exc |-> "none",
                 obj |-> NoRecord, dict |-> PyNone, backexc |-> "none",
                 back |-> NoRecord, mapping |-> PyNone, mapexc |-> "none",
                 mapobj |-> NoRecord]

NoDateCall == [stage |-> "idle", text |-> <<>>, ret |-> FALSE]

WalletInit ==
    /\ file \in InitFiles
    /\ records = [w \in Instances |-> <<>>]
    /\ alive = [w \in Instances |-> FALSE]
    /\ last = NoCall

Init ==
    /\ WalletInit
    /\ rcall = NoRecordCall
    /\ dcall = NoDateCall

\* wallet = Wallet(filename): an exception of load_records leaves __init__
\* and no instance is returned.
Construct(w) ==
    /\ ~alive[w]
    /\ LET out == Wallet_init(file)
       IN  /\ alive' = [alive EXCEPT ![w] = (out.exc = "none")]
           /\ records' = [records EXCEPT ![w] = out.records]
           /\ file' = out.file
           /\ last' = [Call("construct", w) EXCEPT !.exc = out.exc]
    /\ UNCHANGED <<rcall, dcall>>

\* wallet.load_records() on an instance in use.
LoadRecords(w) ==
    /\ alive[w]
    /\ LET out == load_records(records[w], file)
       IN  /\ records' = [records EXCEPT ![w] = out.records]
           /\ file' = out.file
           /\ last' = [Call("load", w) EXCEPT !.exc = out.exc]
    /\ UNCHANGED <<alive, rcall, dcall>>

\* wallet.add_record(record)
AddRecord(w) ==
    /\ alive[w]
    /\ Len(records[w]) < MaxRecords
    /\ \E record \in RecordPool :
          LET out == add_record(records[w], file, record)
          IN  /\ records' = [records EXCEPT ![w] = out.records]
              /\ file' = out.file
              /\ last' = [Call("add", w) EXCEPT !.rec = record]
    /\ UNCHANGED <<alive, rcall, dcall>>

\* wallet.edit_record(index, new_record)
EditRecord(w) ==
    /\ alive[w]
    /\ \E index \in Indexes, new_record \in RecordPool :
          LET out == edit_record(records[w], file, index, new_record)
          IN  /\ records' = [records EXCEPT ![w] = out.records]
              /\ file' = out.file
              /\ last' = [Call("edit", w) EXCEPT !.index = index,
                                                 !.rec = new_record,
                                                 !.ret = out.ret]
    /\ UNCHANGED <<alive, rcall, dcall>>

\* wallet.remove_record(index)
RemoveRecord(w) ==
    /\ alive[w]
    /\ \E index \in Indexes :
          LET out == remove_record(records[w], file, index)
          IN  /\ records' = [records EXCEPT ![w] = out.records]
              /\ file' = out.file
              /\ last' = [Call("remove", w) EXCEPT !.index = index,
                                                   !.ret = out.ret]
    /\ UNCHANGED <<alive, rcall, dcall>>

\* wallet.find_records(search_term)
FindRecords(w) ==
    /\ alive[w]
    /\ \E search_term \in Terms :
          last' = [Call("find", w) EXCEPT
                      !.term = search_term,
                      !.found = find_records(records[w], search_term)]
    /\ UNCHANGED <<file, records, alive, rcall, dcall>>

\* wallet.display_balance()
DisplayBalance(w) ==
    /\ alive[w]
    /\ LET out == display_balance(records[w])
       IN  last' = [Call("balance", w) EXCEPT !.income = out.income,
                                              !.expense = out.expense,
                                              !.balance = out.balance]
    /\ UNCHANGED <<file, records, alive, rcall, dcall>>

WalletStep(w) ==
    \/ Construct(w)
    \/ LoadRecords(w)
    \/ AddRecord(w)
    \/ EditRecord(w)
    \/ RemoveRecord(w)
    \/ FindRecords(w)
    \/ DisplayBalance(w)

Next == WalletStep(1)

Spec == Init /\ [][Next]_vars

\* ------------------------------------------- two Wallets on one file

\* The longest list either of two Wallets on the same file is grown to.
MaxShared == 2

\* The records the two Wallets are given: the first two of the pool.
SharedPool == {r \in RecordPool : r.amount.n \in {1000, -50}}

\* The store file when two Wallets are constructed on it.
SharedFiles ==
    { Missing, FileOf(JsonText(JArray(<<>>))),
      FileOf(JsonText(JArray(<<GoodObject>>))) }

SharedInit ==
    /\ file \in SharedFiles
    /\ records = [w \in Instances |-> <<>>]
    /\ alive = [w \in Instances |-> FALSE]
    /\ last = NoCall
    /\ rcall = NoRecordCall
    /\ dcall = NoDateCall

SharedAdd(w) ==
    /\ Len(records[w]) < MaxShared
    /\ AddRecord(w)
    /\ last'.rec \in SharedPool

SharedEdit(w) ==
    /\ EditRecord(w)
    /\ last'.rec \in SharedPool
    /\ last'.index \in (-1)..MaxShared

SharedRemove(w) ==
    /\ RemoveRecord(w)
    /\ last'.index \in (-1)..MaxShared

\* The calls of the two instances interleave in any order; no call of one
\* starts before the call of the other has returned.
SharedNext ==
    \E w \in Instances :
        \/ Construct(w)
        \/ SharedAdd(w)
        \/ SharedEdit(w)
        \/ SharedRemove(w)

SpecTwo == SharedInit /\ [][SharedNext]_vars

\* --------------------------------------------------- the Record calls

\* The arguments given to the constructor: "2023-01-01", "", -50, -50.0, 7,
\* True, None and [].
ArgValues ==
    { PyStr(Date1), PyStr(<<>>), PyInt(-50), PyFloat(-50), PyInt(7),
      PyBool(TRUE), PyNone, PyList(<<>>) }

WalletIdle ==
    /\ file = Missing
    /\ records = [w \in Instances |-> <<>>]
    /\ alive = [w \in Instances |-> FALSE]
    /\ last = NoCall

RecordInit ==
    /\ WalletIdle
    /\ dcall = NoDateCall
    /\ \E a \in ArgValues \X ArgValues \X ArgValues \X ArgValues :
          rcall = [NoRecordCall EXCEPT !.args = a]

\* Record(date, category, amount, description)
RecordConstruct ==
    /\ rcall.stage = "idle"
    /\ LET out == Record_init(rcall.args[1], rcall.args[2], rcall.args[3],
                              rcall.args[4])
       IN  rcall' = [rcall EXCEPT
                        !.stage = IF out.exc = "none" THEN "constructed"
                                                      ELSE "raised",
                        !.exc = out.exc, !.obj = out.obj]
    /\ UNCHANGED <<file, records, alive, last, dcall>>

\* record.to_dict()
RecordToDict ==
    /\ rcall.stage = "constructed"
    /\ rcall' = [rcall EXCEPT !.stage = "dict", !.dict = to_dict(rcall.obj)]
    /\ UNCHANGED <<file, records, alive, last, dcall>>

\* Record.from_dict(record.to_dict())
RecordFromDict ==
    /\ rcall.stage = "dict"
    /\ LET out == from_dict(rcall.dict)
       IN  rcall' = [rcall EXCEPT !.stage = "back", !.backexc = out.exc,
                                  !.back = out.obj]
    /\ UNCHANGED <<file, records, alive, last, dcall>>

\* Record.from_dict(mapping) on a mapping with the four keys that no
\* constructor has seen: the values are the arguments drawn.
RecordFromMapping ==
    /\ rcall.stage = "idle"
    /\ LET mapping == PyDict(<< <<"date", rcall.args[1]>>,
                                <<"category", rcall.args[2]>>,
                                <<"amount", rcall.args[3]>>,
                                <<"description", rcall.args[4]>> >>)
           out == from_dict(mapping)
       IN  rcall' = [rcall EXCEPT !.stage = "mapped", !.mapping = mapping,
                                  !.mapexc = out.exc, !.mapobj = out.obj]
    /\ UNCHANGED <<file, records, alive, last, dcall>>

\* The store file comes to hold the array of that one mapping (written by
\* hand or by another program).
MappingStored ==
    /\ rcall.stage = "mapped"
    /\ rcall' = [rcall EXCEPT !.stage = "stored"]
    /\ file' = FileOf(json_dump(PyList(<<rcall.mapping>>)))
    /\ UNCHANGED <<records, alive, last, dcall>>

\* Wallet(filename) on that file.
MappingLoaded ==
    /\ rcall.stage = "stored"
    /\ Construct(1)

RecordNext ==
    \/ RecordConstruct
    \/ RecordToDict
    \/ RecordFromDict
    \/ RecordFromMapping
    \/ MappingStored
    \/ MappingLoaded

SpecRecord == RecordInit /\ [][RecordNext]_vars

\* ------------------------------------------------ the validator calls

\* The fields and separators the texts are put together from.
YearTexts == { <<"2", "0", "2", "3">>, <<"2", "0", "2", "4">>, <<"1", "9", "0", "0">>, <<"2", "0", "0", "0">>, <<"0", "0", "0", "0">>, <<"0", "2", "3">> }

MonthTexts == { <<"0", "1">>, <<"1">>, <<"0", "2">>, <<"2">>, <<"0", "4">>, <<"1", "2">>, <<"1", "3">>, <<"0", "0">> }

DayTexts == { <<"0", "1">>, <<"5">>, <<" ", "5">>, <<"2", "8">>, <<"2", "9">>, <<"3", "0">>, <<"3", "1">>, <<"3", "2">>, <<"0", "0">> }

Separators == {"-", "/"}

\* The texts given to validate_date: year, month and day in this order and
\* in the reverse one, with either separator, and the same followed by a
\* blank.
DateTexts ==
    LET joined == UNION { { y \o <<p>> \o m \o <<p>> \o d,
                            d \o <<p>> \o m \o <<p>> \o y } :
                          <<y, m, d, p>> \in
                              YearTexts \X MonthTexts \X DayTexts \X Separators }
    IN  joined \cup {<<>>, Date1 \o <<" ">>}

DateInit ==
    /\ WalletIdle
    /\ rcall = NoRecordCall
    /\ \E t \in DateTexts : dcall = [NoDateCall EXCEPT !.text = t]

\* validate_date(date_text)
ValidateDate ==
    /\ dcall.stage = "idle"
    /\ dcall' = [dcall EXCEPT !.stage = "done", !.ret = validate_date(dcall.text)]
    /\ UNCHANGED <<file, records, alive, last, rcall>>

DateNext == ValidateDate

SpecDate == DateInit /\ [][DateNext]_vars

\* ------------------------------------------------- the Wallet claims

\* The store file holds a JSON array with one object per record of recs, in
\* the order of recs, each with the members date, category, amount and
\* description holding the record's strings and its number (an int without
\* fraction, a float with one).
Serializes(f, recs) ==
    /\ f.exists
    /\ f.text.kind = "json"
    /\ f.text.val.j = "array"
    /\ Len(f.text.val.kids) = Len(recs)
    /\ \A i \in 1..Len(recs) :
          LET o == f.text.val.kids[i]
              r == recs[i]
          IN  /\ o.j = "object"
              /\ Len(o.kids) = 4
              /\ o.kids[1][1] = "date"
              /\ o.kids[1][2].j = "string" /\ o.kids[1][2].s = r.date.s
              /\ o.kids[2][1] = "category"
              /\ o.kids[2][2].j = "string" /\ o.kids[2][2].s = r.category.s
              /\ o.kids[3][1] = "amount"
              /\ o.kids[3][2].n = r.amount.n
              /\ \/ r.amount.t = "int" /\ o.kids[3][2].j = "int"
                 \/ r.amount.t = "float" /\ o.kids[3][2].j = "real"
              /\ o.kids[4][1] = "description"
              /\ o.kids[4][2].j = "string" /\ o.kids[4][2].s = r.description.s

\* C1: right after every add_record call and every edit_record or
\* remove_record call that returned True, the store file is the
\* serialization of the caller's in-memory records: same length, same order,
\* the same four fields element by element.
C1_FileMatchesRecords ==
    (last.op = "add" \/ (last.op \in {"edit", "remove"} /\ last.ret))
        => Serializes(file, records[last.w])

\* An edit of a two-record wallet that changed the file.
C1_Witness ==
    /\ last.op = "edit" /\ last.ret
    /\ Len(records[last.w]) = 2
    /\ file # last.prefile
    /\ Serializes(file, records[last.w])

\* C2: edit_record(index, new_record) with 0 <= index < len(records) puts
\* new_record at index, keeps every other element and the length, rewrites
\* the file and returns True; with any other index, a negative one included,
\* it returns False, raises nothing and leaves records and file as they were.
C2_EditRecord ==
    last.op = "edit" =>
        LET before == last.pre
            now == records[last.w]
        IN  IF 0 <= last.index /\ last.index < Len(before)
            THEN /\ last.ret
                 /\ Len(now) = Len(before)
                 /\ now[last.index + 1] = last.rec
                 /\ \A j \in 1..Len(before) :
                       j # last.index + 1 => now[j] = before[j]
                 /\ Serializes(file, now)
            ELSE /\ ~last.ret
                 /\ last.exc = "none"
                 /\ now = before
                 /\ file = last.prefile

\* An edit of the middle record of three that replaced a different record.
C2_Witness ==
    /\ last.op = "edit" /\ last.ret
    /\ last.index = 1 /\ Len(last.pre) = 3
    /\ last.pre[2] # last.rec
    /\ records[last.w][2] = last.rec

\* C3: remove_record(index) with 0 <= index < len(records) shortens the list
\* by one, keeps the elements before index, moves every element after index
\* one position down, rewrites the file and returns True; with any other
\* index, a negative one included, it returns False and changes neither the
\* records nor the file.
C3_RemoveRecord ==
    last.op = "remove" =>
        LET before == last.pre
            now == records[last.w]
        IN  IF 0 <= last.index /\ last.index < Len(before)
            THEN /\ last.ret
                 /\ Len(now) = Len(before) - 1
                 /\ \A j \in 1..last.index : now[j] = before[j]
                 /\ \A j \in (last.index + 2)..Len(before) :
                       now[j - 1] = before[j]
                 /\ Serializes(file, now)
            ELSE /\ ~last.ret
                 /\ now = before
                 /\ file = last.prefile

\* The middle record of three different records removed.
C3_Witness ==
    /\ last.op = "remove" /\ last.ret
    /\ last.index = 1 /\ Len(last.pre) = 3
    /\ last.pre[1] # last.pre[2] /\ last.pre[2] # last.pre[3]
    /\ Len(records[last.w]) = 2

\* Two characters that are the same letter, whatever their case.
SameLetter(c, d) ==
    \/ c = d
    \/ \E i \in 1..Len(UpperChars) : {c, d} = {UpperChars[i], LowerChars[i]}

\* term occurs in text, case ignored.
OccursIn(term, text) ==
    \E a \in 0..(Len(text) - Len(term)) :
        \A k \in 1..Len(term) : SameLetter(term[k], text[a + k])

\* term is the whole of text, case ignored.
IsWhole(term, text) ==
    /\ Len(term) = Len(text)
    /\ \A k \in 1..Len(term) : SameLetter(term[k], text[k])

\* The record the claim selects for the term.
Selected(r, term) ==
    \/ OccursIn(term, r.description.s)
    \/ OccursIn(term, r.category.s)
    \/ OccursIn(term, str(r.amount))
    \/ IsWhole(term, r.date.s)

\* C4: find_records(term) returns the records, in their order, for which,
\* case ignored, term occurs in the description, the category or the text of
\* the amount, or is the whole date; a term that is a proper part of the date
\* alone selects nothing, a record is found by its date, and the result is
\* empty when nothing matches.
C4_FindRecords ==
    last.op = "find" =>
        LET recs == records[last.w]
            sel == {i \in 1..Len(recs) : Selected(recs[i], last.term)}
        IN  /\ Len(last.found) = Cardinality(sel)
            /\ \A i \in sel :
                  last.found[Cardinality({j \in sel : j <= i})] = recs[i]
            /\ \A i \in 1..Len(recs) :
                  IsWhole(last.term, recs[i].date.s) =>
                      \E k \in 1..Len(last.found) : last.found[k] = recs[i]

\* A search by a proper part of one record's date that found another record
\* by its description and not that one.
C4_Witness ==
    /\ last.op = "find"
    /\ Len(last.found) >= 1
    /\ \E i \in 1..Len(records[last.w]) :
          LET r == records[last.w][i]
          IN  /\ OccursIn(last.term, r.date.s)
              /\ Len(last.term) < Len(r.date.s)
              /\ Len(last.term) > 0
              /\ \A k \in 1..Len(last.found) : last.found[k] # r

\* A JSON value that reads as a sequence of record-shaped mappings.
RecordShaped(node) ==
    /\ node.j = "array"
    /\ \A i \in 1..Len(node.kids) :
          LET o == node.kids[i]
              has(key, kinds) == \E m \in 1..Len(o.kids) :
                                     o.kids[m][1] = key /\ o.kids[m][2].j \in kinds
          IN  /\ o.j = "object"
              /\ has("date", {"string"})
              /\ has("category", {"string"})
              /\ has("amount", {"int", "real"})
              /\ has("description", {"string"})

C6_AddRecord ==
    last.op = "add" =>
        LET before == last.pre
            now == records[last.w]
        IN  /\ Len(now) = Len(before) + 1
            /\ \A j \in 1..Len(before) : now[j] = before[j]
            /\ now[Len(now)] = last.rec
            /\ Serializes(file, now)

\* A record added to a wallet that already held an equal one.
C6_Witness ==
    /\ last.op = "add"
    /\ \E j \in 1..Len(last.pre) : last.pre[j] = last.rec
    /\ Len(records[last.w]) = Len(last.pre) + 1

\* The sum of the amounts of the records at the positions in at.
RECURSIVE AmountOver(_, _)
AmountOver(recs, at) ==
    IF at = {} THEN 0
    ELSE LET i == CHOOSE i \in at : TRUE
         IN  recs[i].amount.n + AmountOver(recs, at \ {i})

\* C8: the balance of display_balance is the sum of the amounts of the
\* records whose category is the income label, case ignored, minus the sum
\* over those whose category is the expense label; a record of another
\* category, one that contains a label included, counts in neither.
C8_Balance ==
    last.op = "balance" =>
        LET recs == records[last.w]
            inc == {i \in 1..Len(recs) : IsWhole(IncomeLabel, recs[i].category.s)}
            out == {i \in 1..Len(recs) : IsWhole(ExpenseLabel, recs[i].category.s)}
        IN  /\ last.income.n = AmountOver(recs, inc)
            /\ last.expense.n = AmountOver(recs, out)
            /\ last.balance.n = AmountOver(recs, inc) - AmountOver(recs, out)
            /\ last.exc = "none"

\* A balance over an income, an expense and a record whose category contains
\* the income label.
C8_Witness ==
    /\ last.op = "balance"
    /\ LET recs == records[last.w]
       IN  /\ \E i \in 1..Len(recs) : IsWhole(IncomeLabel, recs[i].category.s)
           /\ \E i \in 1..Len(recs) : IsWhole(ExpenseLabel, recs[i].category.s)
           /\ \E i \in 1..Len(recs) :
                 /\ OccursIn(IncomeLabel, recs[i].category.s)
                 /\ ~IsWhole(IncomeLabel, recs[i].category.s)
    /\ last.balance.n = last.income.n - last.expense.n

\* ------------------------------------------------- the Record claims

\* C9: the construction of a Record succeeds exactly when date, category
\* and description are strings and amount is a number, an int (a bool is an
\* int to Python) or a float of any sign; otherwise it fails with a
\* TypeError and gives no Record. On success the fields are the arguments
\* themselves.
C9_Constructor ==
    rcall.stage \in {"constructed", "raised", "dict", "back"} =>
        LET typed == /\ rcall.args[1].t = "str"
                     /\ rcall.args[2].t = "str"
                     /\ rcall.args[3].t \in {"int", "bool", "float"}
                     /\ rcall.args[4].t = "str"
        IN  /\ (rcall.exc = "none") <=> typed
            /\ ~typed => rcall.exc = "TypeError" /\ rcall.obj = NoRecord
            /\ typed => /\ rcall.obj.date = rcall.args[1]
                        /\ rcall.obj.category = rcall.args[2]
                        /\ rcall.obj.amount = rcall.args[3]
                        /\ rcall.obj.description = rcall.args[4]

\* A Record constructed with the amount -50.0.
C9_Witness ==
    /\ rcall.stage = "constructed"
    /\ rcall.args[3] = PyFloat(-50)
    /\ rcall.obj.amount.t = "float" /\ rcall.obj.amount.n = -50

\* C10: for a constructed Record r, from_dict(to_dict(r)) succeeds with the
\* date, category, amount and description of r, and to_dict(r) has the keys
\* date, category, amount, description and no other, with r's values as they
\* are.
C10_RoundTrip ==
    /\ rcall.stage \in {"dict", "back"} =>
          /\ rcall.dict.t = "dict"
          /\ Len(rcall.dict.items) = 4
          /\ rcall.dict.items[1] = <<"date", rcall.args[1]>>
          /\ rcall.dict.items[2] = <<"category", rcall.args[2]>>
          /\ rcall.dict.items[3] = <<"amount", rcall.args[3]>>
          /\ rcall.dict.items[4] = <<"description", rcall.args[4]>>
    /\ rcall.stage = "back" =>
          /\ rcall.backexc = "none"
          /\ rcall.back.date = rcall.obj.date
          /\ rcall.back.category = rcall.obj.category
          /\ rcall.back.amount = rcall.obj.amount
          /\ rcall.back.description = rcall.obj.description

\* A Record with an int amount taken through to_dict and from_dict.
C10_Witness ==
    /\ rcall.stage = "back"
    /\ rcall.obj.amount = PyInt(7)
    /\ rcall.back.amount = PyInt(7)
    /\ rcall.back.date.s = Date1

\* ---------------------------------------------- the validator claim

\* A text of the shape YYYY-MM-DD: four digits, '-', two digits of a month
\* 01 to 12, '-', two digits of a day the month of that year has (the years
\* 0001 to 9999).
ExactDate(text) ==
    /\ Len(text) = 10
    /\ \A k \in {1, 2, 3, 4, 6, 7, 9, 10} : IsDigit(text[k])
    /\ text[5] = "-" /\ text[8] = "-"
    /\ LET year == DigitValue(text[1]) * 1000 + DigitValue(text[2]) * 100
                       + DigitValue(text[3]) * 10 + DigitValue(text[4])
           month == DigitValue(text[6]) * 10 + DigitValue(text[7])
           day == DigitValue(text[9]) * 10 + DigitValue(text[10])
       IN  /\ year >= 1
           /\ month \in 1..12
           /\ day >= 1
           /\ day <= (IF month = 2
                      THEN (IF year % 4 = 0 /\ (year % 100 # 0 \/ year % 400 = 0)
                            THEN 29 ELSE 28)
                      ELSE IF month \in {4, 6, 9, 11} THEN 30 ELSE 31)

\* C7: validate_date(text) is True exactly when text has the shape
\* YYYY-MM-DD with a month 01 to 12 and a day of that month and year; every
\* other text, a month or a day written with one digit included, gives False.
C7_ValidateDate ==
    dcall.stage = "done" => (dcall.ret <=> ExactDate(dcall.text))

\* ------------------------------------------------- the load claims

\* The array a file holds as a sequence, empty when it holds no array.
KidsOf(f) ==
    IF f.exists /\ f.text.kind = "json" /\ f.text.val.j = "array"
    THEN f.text.val.kids ELSE <<>>

RecordKeys == {"date", "category", "amount", "description"}

\* A JSON object without one of the four keys.
LacksKey(o) ==
    /\ o.j = "object"
    /\ \E key \in RecordKeys : \A m \in 1..Len(o.kids) : o.kids[m][1] # key

\* The positions of the array of a file whose element lacks a key.
ShortAt(f) == {i \in 1..Len(KidsOf(f)) : LacksKey(KidsOf(f)[i])}

\* C13 as stated: when the file parses as an array with an element lacking
\* one of the four keys, loading fails with a lookup error given to the
\* caller; the wallet is not made empty, the element is not skipped and no
\* element of the file is loaded.
C13_Original ==
    (last.op \in {"construct", "load"} /\ ShortAt(last.prefile) # {})
        => /\ last.exc = "KeyError"
           /\ records[last.w] = last.pre
           /\ last.op = "construct" => ~alive[last.w]

\* C13, amended: such a load fails with an exception given to the caller
\* and loads nothing: the lookup error when every element before the first
\* one lacking a key is a record-shaped mapping, the TypeError of the first
\* element that is not one otherwise.
C13_LoadFails ==
    (last.op \in {"construct", "load"} /\ ShortAt(last.prefile) # {})
        => LET first == CHOOSE i \in ShortAt(last.prefile) :
                            \A j \in ShortAt(last.prefile) : i <= j
               lead == JArray(SubSeq(KidsOf(last.prefile), 1, first - 1))
           IN  /\ last.exc = IF RecordShaped(lead) THEN "KeyError"
                                                   ELSE "TypeError"
               /\ records[last.w] = last.pre
               /\ last.op = "construct" => ~alive[last.w]

\* A Wallet constructed on a file whose second element lacks a key and whose
\* first is well formed: the lookup error, no instance, nothing loaded.
C13_Witness ==
    /\ last.op = "construct"
    /\ ShortAt(last.prefile) = {2}
    /\ RecordShaped(JArray(SubSeq(KidsOf(last.prefile), 1, 1)))
    /\ last.exc = "KeyError"
    /\ ~alive[last.w] /\ records[last.w] = <<>>

\* The arguments drawn have the types of a Record: three strings and an
\* int (a bool is one) or a float.
Typed ==
    /\ rcall.args[1].t = "str"
    /\ rcall.args[2].t = "str"
    /\ rcall.args[3].t \in {"int", "bool", "float"}
    /\ rcall.args[4].t = "str"

\* C14 as stated: from_dict does not test the types as the constructor
\* does: on a mapping with the four keys and a value of a wrong type it
\* returns a Record holding the values as they are, and loading a file with
\* such an element succeeds.
C14_Original ==
    /\ (rcall.stage \in {"mapped", "stored"} /\ ~Typed)
          => /\ rcall.mapexc = "none"
             /\ rcall.mapobj.date = rcall.args[1]
             /\ rcall.mapobj.category = rcall.args[2]
             /\ rcall.mapobj.amount = rcall.args[3]
             /\ rcall.mapobj.description = rcall.args[4]
    /\ (rcall.stage = "stored" /\ last.op = "construct" /\ ~Typed)
          => last.exc = "none" /\ alive[last.w]

\* C14, amended: from_dict tests the types as the constructor does, for it
\* calls the constructor: on a mapping with the four keys and a value of a
\* wrong type it fails with a TypeError and returns no Record, and loading
\* a file with such an element fails with that TypeError; with values of
\* the right types it returns the Record holding them and the load succeeds.
C14_FromDictValidates ==
    /\ rcall.stage \in {"mapped", "stored"} =>
          /\ (rcall.mapexc = "none") <=> Typed
          /\ ~Typed => rcall.mapexc = "TypeError" /\ rcall.mapobj = NoRecord
          /\ Typed => /\ rcall.mapobj.date = rcall.args[1]
                      /\ rcall.mapobj.category = rcall.args[2]
                      /\ rcall.mapobj.amount = rcall.args[3]
                      /\ rcall.mapobj.description = rcall.args[4]
    /\ (rcall.stage = "stored" /\ last.op = "construct") =>
          /\ ~Typed => /\ last.exc = "TypeError"
                       /\ ~alive[last.w]
                       /\ records[last.w] = <<>>
          /\ Typed => /\ last.exc = "none"
                      /\ alive[last.w]
                      /\ records[last.w] = <<rcall.mapobj>>

\* A mapping with a string as its amount: from_dict raised the TypeError,
\* and so did the Wallet constructed on the file holding it.
C14_Witness ==
    /\ rcall.stage = "stored"
    /\ rcall.args[1].t = "str" /\ rcall.args[2].t = "str"
    /\ rcall.args[3].t = "str" /\ rcall.args[4].t = "str"
    /\ rcall.mapexc = "TypeError"
    /\ last.op = "construct" /\ last.exc = "TypeError"
    /\ ~alive[1]

\* The list reloaded equals the list held: the same length and the same
\* Record fields at every position.
SameRecords(loaded, held) ==
    /\ Len(loaded) = Len(held)
    /\ \A i \in 1..Len(held) : loaded[i] = held[i]

\* C15: for the one Wallet constructed on the file, after any calls of
\* add_record, edit_record, remove_record (done or refused), find_records
\* and display_balance, from any file the construction accepts, loading the
\* file again (load_records on the instance, or a second Wallet on the same
\* filename) raises nothing and gives the records the instance holds, in
\* the same order; the load_records call just made left the list as it was.
C15_ReloadGivesRecords ==
    /\ alive[1] =>
          LET again == load_records(records[1], file)
              second == Wallet_init(file)
          IN  /\ again.exc = "none"
              /\ SameRecords(again.records, records[1])
              /\ second.exc = "none"
              /\ SameRecords(second.records, records[1])
    /\ last.op = "load" =>
          /\ last.exc = "none"
          /\ SameRecords(records[last.w], last.pre)

\* load_records was called on an instance holding two different records, one
\* with a float amount and one with an int amount, and kept them in order.
C15_Witness ==
    /\ last.op = "load" /\ last.exc = "none"
    /\ Len(last.pre) = 2
    /\ last.pre[1].amount.t = "float"
    /\ last.pre[2].amount.t = "int"
    /\ records[1] = last.pre

\* C16: find_records and display_balance change neither the records held
\* nor the store file; Wallet construction and load_records leave the file
\* as it was (a missing file stays missing, an unparseable one keeps its
\* text); so the file differs from what it was before a call only when the
\* call was an add_record, or an edit_record or remove_record that returned
\* True.
C16_ReadOnly ==
    /\ last.op \in {"find", "balance"} =>
          /\ records[last.w] = last.pre
          /\ file = last.prefile
    /\ last.op \in {"construct", "load"} => file = last.prefile
    /\ (last.op # "none" /\ file # last.prefile) =>
          /\ last.op \in {"add", "edit", "remove"}
          /\ last.op \in {"edit", "remove"} => last.ret = TRUE

\* load_records was called on an instance whose file is missing, after the
\* construction on that missing file, and the file is still missing.
C16_Witness ==
    /\ last.op = "load"
    /\ alive[last.w]
    /\ ~last.prefile.exists
    /\ ~file.exists

\* ------------------------------------------- the two-Wallet claims

\* The JSON object a record is written as.
ObjectOf(r) ==
    JObject(<< <<"date", JString(r.date.s)>>,
               <<"category", JString(r.category.s)>>,
               <<"amount", IF r.amount.t = "float" THEN JReal(r.amount.n)
                                                    ELSE JInt(r.amount.n)>>,
               <<"description", JString(r.description.s)>> >>)

\* The elements of the array the file holds, none when it holds no array.
Held(f) ==
    IF f.exists /\ f.text.kind = "json" /\ f.text.val.j = "array"
    THEN {f.text.val.kids[i] : i \in 1..Len(f.text.val.kids)} ELSE {}

\* A call that changed the list of its instance and wrote the file.
Mutated ==
    last.op = "add" \/ (last.op \in {"edit", "remove"} /\ last.ret)

\* C11: with two Wallets on one file and their calls interleaved, after
\* each successful mutating call the file holds exactly the records of the
\* calling instance, no more: what the other instance wrote and the caller
\* does not hold in memory is gone from the file.
C11_LastWriterWins ==
    Mutated =>
        LET mine == records[last.w]
        IN  /\ file.exists /\ file.text.kind = "json"
            /\ file.text.val.j = "array"
            /\ Len(file.text.val.kids) = Len(mine)
            /\ \A i \in 1..Len(mine) : file.text.val.kids[i] = ObjectOf(mine[i])
            /\ \A o \in Held(last.prefile) :
                  (\A i \in 1..Len(mine) : ObjectOf(mine[i]) # o)
                      => o \notin Held(file)

\* The second instance wrote over a file that held a record of the first
\* which it did not hold itself.
C11_Witness ==
    /\ Mutated
    /\ alive[1] /\ alive[2]
    /\ \E i \in 1..Len(records[3 - last.w]) :
          /\ ObjectOf(records[3 - last.w][i]) \in Held(last.prefile)
          /\ ObjectOf(records[3 - last.w][i]) \notin Held(file)
    /\ Len(records[last.w]) >= 1

\* The objects of a list of records, in order.
ObjectsOf(recs) == [i \in 1..Len(recs) |-> ObjectOf(recs[i])]

\* The change of the last call applied to a sequence of objects: the new
\* object appended, put at the index, or the object at the index deleted.
Applied(objs) ==
    IF last.op = "add" THEN Append(objs, ObjectOf(last.rec))
    ELSE IF last.op = "edit"
         THEN [i \in 1..Len(objs) |->
                  IF i = last.index + 1 THEN ObjectOf(last.rec) ELSE objs[i]]
    ELSE [i \in 1..(Len(objs) - 1) |->
             IF i <= last.index THEN objs[i] ELSE objs[i + 1]]

\* C12 as stated: each mutating call reads the file, applies its change to
\* what it read and writes the result, so the file after the call is the
\* file before the call with the one change applied, also when the other
\* instance has written the file in between.
C12_Original ==
    (Mutated /\ (last.op = "add" \/ last.index < Len(KidsOf(last.prefile))))
        => KidsOf(file) = Applied(KidsOf(last.prefile))

\* C12, amended: each mutating call applies its change to the in-memory
\* records of the calling instance and writes the file from them without
\* reading it: the file after the call is the caller's records before the
\* call with the one change applied, whatever the file held; it is the file
\* before the call with the change applied when the file held the caller's
\* records.
C12_WritesFromMemory ==
    Mutated =>
        /\ file.exists /\ file.text.kind = "json" /\ file.text.val.j = "array"
        /\ KidsOf(file) = Applied(ObjectsOf(last.pre))
        /\ ObjectsOf(records[last.w]) = Applied(ObjectsOf(last.pre))
        /\ KidsOf(last.prefile) = ObjectsOf(last.pre)
              => KidsOf(file) = Applied(KidsOf(last.prefile))

\* A record added by an instance whose memory was not what the file held:
\* the other instance had written it.
C12_Witness ==
    /\ last.op = "add"
    /\ alive[1] /\ alive[2]
    /\ Len(KidsOf(last.prefile)) >= 1
    /\ KidsOf(last.prefile) # ObjectsOf(last.pre)
    /\ KidsOf(file) = Append(ObjectsOf(last.pre), ObjectOf(last.rec))

====
